---- MODULE Spec2Model ----
(***************************************************************************)
(* HD map server: the R-tree spatial index (src/src/rtree.cpp) and the map *)
(* store built on it (src/src/map_server.cpp).                             *)
(*                                                                         *)
(* Coordinates are small integers, so every double operation of the code   *)
(* is exact.  A node pointer is a node id (a key of t.nodes), nullptr is   *)
(* NullNode.  The void* payload of an entry is a tagged value: NodeRef(n)  *)
(* for a child node and EntRef(e) for a map element, so that a cast of a   *)
(* map element to RTreeNode* is visible as a type confusion and is         *)
(* reported as undefined behaviour (t.corrupt).                            *)
(***************************************************************************)
EXTENDS Integers, Sequences, FiniteSets, TLC

VARIABLES
  tree,       \* the RTree object under test: root_, elementCount_ and the nodes on the heap
  inserted,   \* history: the boxes passed to insert since construction or the last clear(), in order
  changes,    \* history: how often an inserted box differed from the one inserted before it
  cleared,    \* history: clear() has been called on the index
  qbox,       \* <<q>> for the box q of the last query() call, <<>> when a mutation followed it
  results,    \* the results vector that call filled
  store,      \* the MapServer object: constraints_, the three mappings, the three indices
  lastCall,   \* history: the last call on the store, "none", "load", "clear", "query" or "drop"
  lastFile,   \* history: the file of the most recent loadFromFile
  loadResult, \* <<r>> for the return value r of the most recent loadFromFile, <<>> before it
  freed,      \* the map elements, as <<kind, id>>, that were deleted while the store refers to them
  held,       \* the map elements owned by the value the last query returned, until the caller drops it
  call,       \* history: <<op, arg>> of the most recent query on the store, <<>> after a load or clear
  ret,        \* history: the value that query returned and the index hits it was built from
  queries,    \* the number of queries since the last load or clear
  pc,         \* the statement of loadFromFile the loading thread is at, "idle" outside a call
  loading,    \* the file the loading thread is loading
  seen,       \* <<v>> for the view v of the store a reading thread took last, <<>> before it
  laneObj     \* a Lane object built by hand, for Lane::computeBoundingBox

treeVars == <<tree, inserted, changes, cleared, qbox, results>>

serverVars == <<store, lastCall, lastFile, loadResult>>

queryVars == <<freed, held, call, ret, queries>>

loaderVars == <<pc, loading, seen>>

vars == <<tree, inserted, changes, cleared, qbox, results, store, lastCall, lastFile, loadResult,
          freed, held, call, ret, queries, pc, loading, seen, laneObj>>

-----------------------------------------------------------------------------
(* Bounds of the model *)

\* inserts explored on an index that was never cleared
MaxInserts == 17
\* the workload arrives in runs of equal boxes: at most this many changes of box
MaxChanges == 2
\* inserts explored after a clear()
MaxInsertsAfterClear == 3

\* queries explored on the store after a load
MaxQueries == 2

-----------------------------------------------------------------------------
(* rtree.hpp constants *)

MAX_RTREE_ENTRIES == 8

LEAF == "LEAF"
INTERNAL == "INTERNAL"
NullNode == 0

-----------------------------------------------------------------------------
(* types.cpp: geometry *)

Min2(a, b) == IF a <= b THEN a ELSE b
Max2(a, b) == IF a >= b THEN a ELSE b

Point2D(x, y) == [x_ |-> x, y_ |-> y]

BoundingBox(x1, y1, x2, y2) == [min_ |-> Point2D(x1, y1), max_ |-> Point2D(x2, y2)]

\* BoundingBox() = default: both points are Point2D() = (0, 0)
ZeroBox == BoundingBox(0, 0, 0, 0)

intersects(a, b) ==
  ~(a.max_.x_ < b.min_.x_ \/ a.min_.x_ > b.max_.x_ \/
    a.max_.y_ < b.min_.y_ \/ a.min_.y_ > b.max_.y_)

area(b) == (b.max_.x_ - b.min_.x_) * (b.max_.y_ - b.min_.y_)

\* center() is ((min+max)/2, (min+max)/2); the model keeps twice the centre, an
\* integer, and compares distances by their squares: for these values
\* dist(c1, c2) > dist(c3, c4) iff the squares of the doubled distances compare so.
center2(b) == Point2D(b.min_.x_ + b.max_.x_, b.min_.y_ + b.max_.y_)

distanceSq(p, q) == (p.x_ - q.x_) * (p.x_ - q.x_) + (p.y_ - q.y_) * (p.y_ - q.y_)

\* the componentwise union used by getBoundingBox and computeEnlargement
Combine(a, b) ==
  BoundingBox(Min2(a.min_.x_, b.min_.x_), Min2(a.min_.y_, b.min_.y_),
              Max2(a.max_.x_, b.max_.x_), Max2(a.max_.y_, b.max_.y_))

-----------------------------------------------------------------------------
(* rtree.hpp / rtree.cpp: nodes and entries *)

NodeRef(n) == [k |-> "node", id |-> n]
EntRef(e) == [k |-> "ent", id |-> e]

RTreeEntry(bbox, data) == [bbox |-> bbox, data |-> data]

RTreeNode(type) == [type |-> type, entries |-> <<>>, parent |-> NullNode]

isLeaf(n) == n.type = LEAF

\* isFull with > for >=
isFull_OffByOne(n) == Len(n.entries) > MAX_RTREE_ENTRIES

isFull(n) == Len(n.entries) >= MAX_RTREE_ENTRIES

RECURSIVE UnionFrom(_, _, _)
UnionFrom(es, i, acc) ==
  IF i > Len(es) THEN acc ELSE UnionFrom(es, i + 1, Combine(acc, es[i].bbox))

\* RTreeNode::getBoundingBox over the entries vector
getBoundingBox(es) ==
  IF es = <<>> THEN ZeroBox ELSE UnionFrom(es, 2, es[1].bbox)

computeEnlargement(existing, addition) ==
  area(Combine(existing, addition)) - area(existing)

\* RTree::RTree(): a LEAF root, no elements
NewTree ==
  [nodes |-> (1 :> RTreeNode(LEAF)), root |-> 1, elementCount |-> 0, corrupt |-> FALSE]

\* operator new: the lowest address not in use
NewId(nodes) ==
  CHOOSE i \in 1..(Cardinality(DOMAIN nodes) + 1) :
    i \notin DOMAIN nodes /\ \A j \in 1..(i - 1) : j \in DOMAIN nodes

Corrupt(t) == [t EXCEPT !.corrupt = TRUE]

-----------------------------------------------------------------------------
(* RTree::chooseLeaf *)

\* the loop of lines 63-69: the first index among those of minimum enlargement
BestIdx(es, bbox) ==
  CHOOSE i \in 1..Len(es) :
    /\ \A j \in 1..Len(es) :
         computeEnlargement(es[i].bbox, bbox) <= computeEnlargement(es[j].bbox, bbox)
    /\ \A j \in 1..(i - 1) :
         computeEnlargement(es[j].bbox, bbox) > computeEnlargement(es[i].bbox, bbox)

RECURSIVE Descend(_, _, _)
Descend(t, current, bbox) ==
  LET n == t.nodes[current] IN
  IF isLeaf(n) THEN current
  ELSE IF n.entries = <<>> THEN NullNode            \* entries[0] of an empty vector
  ELSE LET d == n.entries[BestIdx(n.entries, bbox)].data IN
       IF d.k # "node" THEN NullNode                \* a map element read as RTreeNode
       ELSE Descend(t, d.id, bbox)

\* NullNode stands for undefined behaviour during the descent
chooseLeaf(t, bbox) == Descend(t, t.root, bbox)

-----------------------------------------------------------------------------
(* RTree::adjustTree *)

\* the index of the first entry of es that refers to node c, 0 if none does
EntryOf(es, c) ==
  IF \E i \in 1..Len(es) : es[i].data = NodeRef(c)
  THEN CHOOSE i \in 1..Len(es) :
         es[i].data = NodeRef(c) /\ \A j \in 1..(i - 1) : es[j].data # NodeRef(c)
  ELSE 0

RECURSIVE AdjustFrom(_, _)
AdjustFrom(t, current) ==
  IF current = t.root THEN t
  ELSE LET parent == t.nodes[current].parent
           i == EntryOf(t.nodes[parent].entries, current)
           t1 == IF i = 0 THEN t
                 ELSE [t EXCEPT !.nodes[parent].entries[i].bbox =
                                   getBoundingBox(t.nodes[current].entries)]
       IN AdjustFrom(t1, parent)

adjustTree(t, leaf) == AdjustFrom(t, leaf)

-----------------------------------------------------------------------------
(* RTree::splitNode *)

\* seeds that start at the same entry: seed1 = seed2 = 0 when no pair is apart
PickSeeds_SameSeed(all) ==
  LET n == Len(all)
      D(i, j) == distanceSq(center2(all[i].bbox), center2(all[j].bbox))
      Pairs == {p \in (1..n) \X (1..n) : p[1] < p[2]}
      Before(p, q) == p[1] < q[1] \/ (p[1] = q[1] /\ p[2] < q[2])
  IN IF \A p \in Pairs : D(p[1], p[2]) = 0 THEN <<1, 1>>
     ELSE CHOOSE p \in Pairs :
            /\ \A q \in Pairs : D(q[1], q[2]) <= D(p[1], p[2])
            /\ \A q \in Pairs : Before(q, p) => D(q[1], q[2]) < D(p[1], p[2])

\* lines 93-107: the first pair, in scan order, whose centres are farthest apart;
\* (1, 2) when no pair is more than 0 apart
PickSeeds(all) ==
  LET n == Len(all)
      D(i, j) == distanceSq(center2(all[i].bbox), center2(all[j].bbox))
      Pairs == {p \in (1..n) \X (1..n) : p[1] < p[2]}
      Before(p, q) == p[1] < q[1] \/ (p[1] = q[1] /\ p[2] < q[2])
  IN IF \A p \in Pairs : D(p[1], p[2]) = 0 THEN <<1, 2>>
     ELSE CHOOSE p \in Pairs :
            /\ \A q \in Pairs : D(q[1], q[2]) <= D(p[1], p[2])
            /\ \A q \in Pairs : Before(q, p) => D(q[1], q[2]) < D(p[1], p[2])

\* lines 118-132: which of the two nodes takes entry e, TRUE for the original node
GoesToNode(e1, e2, e) ==
  computeEnlargement(getBoundingBox(e1), e.bbox) <
    computeEnlargement(getBoundingBox(e2), e.bbox)

RECURSIVE Distribute(_, _, _, _, _, _)
Distribute(all, i, s1, s2, e1, e2) ==
  IF i > Len(all) THEN <<e1, e2>>
  ELSE IF i = s1 \/ i = s2 THEN Distribute(all, i + 1, s1, s2, e1, e2)
  ELSE IF GoesToNode(e1, e2, all[i])
       THEN Distribute(all, i + 1, s1, s2, Append(e1, all[i]), e2)
       ELSE Distribute(all, i + 1, s1, s2, e1, Append(e2, all[i]))

\* lines 134-141: the split node was the root
\* the root split without root_ = newRoot
SplitRoot_KeepsRoot(t, node, newNode) ==
  LET newRoot == NewId(t.nodes)
      rootRec == [type |-> INTERNAL,
                  entries |-> <<RTreeEntry(getBoundingBox(t.nodes[node].entries), NodeRef(node)),
                                RTreeEntry(getBoundingBox(t.nodes[newNode].entries), NodeRef(newNode))>>,
                  parent |-> NullNode]
      ns == [t.nodes EXCEPT ![node].parent = newRoot, ![newNode].parent = newRoot]
  IN [t EXCEPT !.nodes = (newRoot :> rootRec) @@ ns]

SplitRoot(t, node, newNode) ==
  LET newRoot == NewId(t.nodes)
      rootRec == [type |-> INTERNAL,
                  entries |-> <<RTreeEntry(getBoundingBox(t.nodes[node].entries), NodeRef(node)),
                                RTreeEntry(getBoundingBox(t.nodes[newNode].entries), NodeRef(newNode))>>,
                  parent |-> NullNode]
      ns == [t.nodes EXCEPT ![node].parent = newRoot, ![newNode].parent = newRoot]
  IN [t EXCEPT !.nodes = (newRoot :> rootRec) @@ ns, !.root = newRoot]

\* a split whose new sibling is always made a LEAF
RECURSIVE splitNode_LeafSibling(_, _, _)
splitNode_LeafSibling(t, node, newEntry) ==
  LET n == t.nodes[node]
      allEntries == Append(n.entries, newEntry)
      seeds == PickSeeds(allEntries)
      newNode == NewId(t.nodes)
      d == Distribute(allEntries, 1, seeds[1], seeds[2],
                      <<allEntries[seeds[1]]>>, <<allEntries[seeds[2]]>>)
      newRec == [type |-> LEAF, entries |-> d[2], parent |-> n.parent]
      t1 == [t EXCEPT !.nodes = (newNode :> newRec) @@ [t.nodes EXCEPT ![node].entries = d[1]]]
      parentEntry == RTreeEntry(getBoundingBox(d[2]), NodeRef(newNode))
      t2 == IF node = t.root THEN SplitRoot(t1, node, newNode)
            ELSE IF ~isFull(t1.nodes[n.parent])
                 THEN [t1 EXCEPT !.nodes[n.parent].entries = Append(@, parentEntry)]
                 ELSE splitNode_LeafSibling(t1, n.parent, parentEntry)
  IN adjustTree(t2, node)

RECURSIVE splitNode(_, _, _)
splitNode(t, node, newEntry) ==
  LET n == t.nodes[node]
      allEntries == Append(n.entries, newEntry)
      seeds == PickSeeds(allEntries)
      newNode == NewId(t.nodes)
      d == Distribute(allEntries, 1, seeds[1], seeds[2],
                      <<allEntries[seeds[1]]>>, <<allEntries[seeds[2]]>>)
      newRec == [type |-> n.type, entries |-> d[2], parent |-> n.parent]
      t1 == [t EXCEPT !.nodes = (newNode :> newRec) @@ [t.nodes EXCEPT ![node].entries = d[1]]]
      parentEntry == RTreeEntry(getBoundingBox(d[2]), NodeRef(newNode))
      t2 == IF node = t.root THEN SplitRoot(t1, node, newNode)
            ELSE IF ~isFull(t1.nodes[n.parent])
                 THEN [t1 EXCEPT !.nodes[n.parent].entries = Append(@, parentEntry)]
                 ELSE splitNode(t1, n.parent, parentEntry)
  IN adjustTree(t2, node)

-----------------------------------------------------------------------------
(* RTree::insert, query, clear, size, height *)

insert(t, bbox, data) ==
  LET entry == RTreeEntry(bbox, data)
      leaf == chooseLeaf(t, bbox)
  IN IF t.corrupt THEN t
     ELSE IF t.nodes[t.root].entries = <<>>
     THEN [t EXCEPT !.nodes[t.root].entries = <<entry>>, !.elementCount = @ + 1]
     ELSE IF leaf = NullNode THEN Corrupt(t)
     ELSE LET t1 == IF ~isFull(t.nodes[leaf])
                    THEN adjustTree([t EXCEPT !.nodes[leaf].entries = Append(@, entry)], leaf)
                    ELSE splitNode(t, leaf, entry)
          IN [t1 EXCEPT !.elementCount = @ + 1]

\* queryNode never reads a map element as a node on the entries that intersect bbox
RECURSIVE QuerySafe(_, _, _)
QuerySafe(t, node, bbox) ==
  LET n == t.nodes[node] IN
  isLeaf(n) \/
  \A i \in 1..Len(n.entries) :
    intersects(n.entries[i].bbox, bbox) =>
      n.entries[i].data.k = "node" /\ QuerySafe(t, n.entries[i].data.id, bbox)

RECURSIVE QueryFrom(_, _, _, _)
RECURSIVE queryNode(_, _, _)
QueryFrom(t, node, bbox, i) ==
  LET n == t.nodes[node] IN
  IF i > Len(n.entries) THEN <<>>
  ELSE IF ~intersects(n.entries[i].bbox, bbox) THEN QueryFrom(t, node, bbox, i + 1)
  ELSE IF isLeaf(n) THEN <<n.entries[i].data>> \o QueryFrom(t, node, bbox, i + 1)
  ELSE queryNode(t, n.entries[i].data.id, bbox) \o QueryFrom(t, node, bbox, i + 1)

queryNode(t, node, bbox) == QueryFrom(t, node, bbox, 1)

\* the results vector of query(bbox, results) on an empty vector
query(t, bbox) == queryNode(t, t.root, bbox)

size(t) == t.elementCount

RECURSIVE HeightFrom(_, _)
HeightFrom(t, current) ==
  LET n == t.nodes[current] IN
  IF isLeaf(n) \/ n.entries = <<>> THEN 1
  ELSE IF n.entries[1].data.k # "node" THEN 0      \* a map element read as RTreeNode
  ELSE LET h == HeightFrom(t, n.entries[1].data.id) IN IF h = 0 THEN 0 ELSE h + 1

\* 0 stands for undefined behaviour
height(t) == HeightFrom(t, t.root)

\* deleteTree(root_) reads no map element as a node
RECURSIVE DeleteSafe(_, _)
DeleteSafe(t, node) ==
  LET n == t.nodes[node] IN
  isLeaf(n) \/
  \A i \in 1..Len(n.entries) :
    n.entries[i].data.k = "node" /\ DeleteSafe(t, n.entries[i].data.id)

\* clear(): deleteTree frees every node but root_, then root_->entries.clear();
\* deleteTree on a map element read as a node is undefined behaviour
clear(t) ==
  IF t.corrupt THEN t
  ELSE [t EXCEPT !.nodes = (t.root :> [t.nodes[t.root] EXCEPT !.entries = <<>>]),
                 !.elementCount = 0,
                 !.corrupt = ~DeleteSafe(t, t.root)]

-----------------------------------------------------------------------------
(* types.hpp / types.cpp: map elements *)

\* Lane(): empty geometry and topology, bbox_ = BoundingBox()
Lane(id, centerline) ==
  [id_ |-> id, centerline_ |-> centerline, leftBoundary_ |-> <<>>, rightBoundary_ |-> <<>>,
   predecessorIds_ |-> <<>>, successorIds_ |-> <<>>,
   adjacentLeftIds_ |-> <<>>, adjacentRightIds_ |-> <<>>, bbox_ |-> ZeroBox]

TrafficLight(id, position) ==
  [id_ |-> id, position_ |-> position, controlledLaneIds_ |-> <<>>]

TrafficSign(id, position) ==
  [id_ |-> id, position_ |-> position, value_ |-> "", affectedLaneIds_ |-> <<>>]

\* one of the three loops of Lane::computeBoundingBox: acc is <<minX, maxX, minY, maxY>>
RECURSIVE ExtendBy(_, _, _)
ExtendBy(acc, pts, i) ==
  IF i > Len(pts) THEN acc
  ELSE ExtendBy(<<Min2(acc[1], pts[i].x_), Max2(acc[2], pts[i].x_),
                  Min2(acc[3], pts[i].y_), Max2(acc[4], pts[i].y_)>>, pts, i + 1)

\* a bounding box that leaves out the right boundary
computeBoundingBox_NoRight(lane) ==
  IF lane.centerline_ = <<>> THEN ZeroBox
  ELSE LET p == lane.centerline_[1]
           a == ExtendBy(<<p.x_, p.x_, p.y_, p.y_>>, lane.centerline_, 1)
           b == ExtendBy(a, lane.leftBoundary_, 1)
       IN BoundingBox(b[1], b[3], b[2], b[4])

\* Lane::computeBoundingBox: the value it stores in bbox_
computeBoundingBox(lane) ==
  IF lane.centerline_ = <<>> THEN ZeroBox
  ELSE LET p == lane.centerline_[1]
           a == ExtendBy(<<p.x_, p.x_, p.y_, p.y_>>, lane.centerline_, 1)
           b == ExtendBy(a, lane.leftBoundary_, 1)
           c == ExtendBy(b, lane.rightBoundary_, 1)
       IN BoundingBox(c[1], c[3], c[2], c[4])

\* sizeof and std::string::capacity() on an LP64 build with libstdc++
SizeofLane == 224
SizeofPoint2D == 16
SizeofUint64 == 8
SizeofTrafficLight == 64
SizeofTrafficSign == 96
EmptyStringCapacity == 15
RTreeEntryOverhead == 64

-----------------------------------------------------------------------------
(* lanelet2_parser.cpp.  A file is its parsed syntax: whether it can be opened,
   its <node> tags (id -> point), its <way> tags in file order (id, whether the
   text holds "subtype", the <nd ref> ids) and its <relation> tags in file order
   (id, whether type is regulatory_element, the subtype). *)

EmptyMap == [x \in {} |-> x]

\* parseNodes: nodes[id] = Point2D(lon, lat); false when no node was found
parseNodes(file) == [ok |-> DOMAIN file.nodes # {}, nodes |-> file.nodes]

\* lines 118-130: the points of the <nd ref> ids that are known nodes
RECURSIVE ResolveRefs(_, _, _)
ResolveRefs(refs, nodes, i) ==
  IF i > Len(refs) THEN <<>>
  ELSE (IF refs[i] \in DOMAIN nodes THEN <<nodes[refs[i]]>> ELSE <<>>)
         \o ResolveRefs(refs, nodes, i + 1)

\* parseLanelets: the lanes_ mapping after the ways up to i
RECURSIVE parseLanelets(_, _, _, _)
parseLanelets(ways, nodes, lanes, i) ==
  IF i > Len(ways) THEN lanes
  ELSE LET w == ways[i]
           lane == Lane(w.id, ResolveRefs(w.refs, nodes, 1))
       IN IF w.isCenterline /\ lane.centerline_ # <<>>
          THEN parseLanelets(ways, nodes, (w.id :> lane) @@ lanes, i + 1)
          ELSE parseLanelets(ways, nodes, lanes, i + 1)

\* parseRegulatoryElements: the mapping of the given subtype after the relations up to i
RECURSIVE parseRegulatoryElements(_, _, _, _)
parseRegulatoryElements(rels, subtype, acc, i) ==
  IF i > Len(rels) THEN acc
  ELSE LET r == rels[i]
           elem == IF subtype = "traffic_light"
                   THEN TrafficLight(r.id, Point2D(0, 0))
                   ELSE TrafficSign(r.id, Point2D(0, 0))
       IN IF r.regulatory /\ r.subtype = subtype
          THEN parseRegulatoryElements(rels, subtype, (r.id :> elem) @@ acc, i + 1)
          ELSE parseRegulatoryElements(rels, subtype, acc, i + 1)

\* Lanelet2Parser::parse on a cleared store: its return value and the three mappings
parse(file) ==
  IF ~file.readable \/ ~parseNodes(file).ok
  THEN [ok |-> FALSE, lanes |-> EmptyMap, lights |-> EmptyMap, signs |-> EmptyMap]
  ELSE [ok |-> TRUE,
        lanes |-> parseLanelets(file.ways, file.nodes, EmptyMap, 1),
        lights |-> parseRegulatoryElements(file.relations, "traffic_light", EmptyMap, 1),
        signs |-> parseRegulatoryElements(file.relations, "traffic_sign", EmptyMap, 1)]

-----------------------------------------------------------------------------
(* map_server.cpp.  A store is the record of the MapServer's members. *)

NewStore(constraints) ==
  [constraints_ |-> constraints,
   lanes_ |-> EmptyMap, trafficLights_ |-> EmptyMap, trafficSigns_ |-> EmptyMap,
   laneIndex_ |-> NewTree, trafficLightIndex_ |-> NewTree, trafficSignIndex_ |-> NewTree]

RECURSIVE SumOver(_, _)
SumOver(S, f) ==
  IF S = {} THEN 0
  ELSE LET x == CHOOSE y \in S : TRUE IN f[x] + SumOver(S \ {x}, f)

LaneCost(lane) ==
  SizeofLane
  + Len(lane.centerline_) * SizeofPoint2D
  + Len(lane.leftBoundary_) * SizeofPoint2D
  + Len(lane.rightBoundary_) * SizeofPoint2D
  + Len(lane.predecessorIds_) * SizeofUint64
  + Len(lane.successorIds_) * SizeofUint64
  + Len(lane.adjacentLeftIds_) * SizeofUint64
  + Len(lane.adjacentRightIds_) * SizeofUint64

getMemoryUsage(st) ==
  SumOver(DOMAIN st.lanes_, [id \in DOMAIN st.lanes_ |-> LaneCost(st.lanes_[id])])
  + Cardinality(DOMAIN st.trafficLights_) * SizeofTrafficLight
  + SumOver(DOMAIN st.trafficLights_,
            [id \in DOMAIN st.trafficLights_ |->
               Len(st.trafficLights_[id].controlledLaneIds_) * SizeofUint64])
  + Cardinality(DOMAIN st.trafficSigns_) * SizeofTrafficSign
  + SumOver(DOMAIN st.trafficSigns_,
            [id \in DOMAIN st.trafficSigns_ |->
               EmptyStringCapacity
               + Len(st.trafficSigns_[id].affectedLaneIds_) * SizeofUint64])
  + (size(st.laneIndex_) + size(st.trafficLightIndex_) + size(st.trafficSignIndex_))
      * RTreeEntryOverhead

\* checkMemoryConstraints with >= for > on the lane count and < for <= on the estimate
checkMemoryConstraints_Strict(st) ==
  IF Cardinality(DOMAIN st.lanes_) >= st.constraints_.maxLanes THEN FALSE
  ELSE IF Cardinality(DOMAIN st.trafficLights_) > st.constraints_.maxTrafficLights THEN FALSE
  ELSE IF Cardinality(DOMAIN st.trafficSigns_) > st.constraints_.maxTrafficSigns THEN FALSE
  ELSE getMemoryUsage(st) < st.constraints_.maxTotalMemory

checkMemoryConstraints(st) ==
  IF Cardinality(DOMAIN st.lanes_) > st.constraints_.maxLanes THEN FALSE
  ELSE IF Cardinality(DOMAIN st.trafficLights_) > st.constraints_.maxTrafficLights THEN FALSE
  ELSE IF Cardinality(DOMAIN st.trafficSigns_) > st.constraints_.maxTrafficSigns THEN FALSE
  ELSE getMemoryUsage(st) <= st.constraints_.maxTotalMemory

\* MapServer::clear
clearStore(st) ==
  [st EXCEPT !.lanes_ = EmptyMap, !.trafficLights_ = EmptyMap, !.trafficSigns_ = EmptyMap,
             !.laneIndex_ = clear(@), !.trafficLightIndex_ = clear(@),
             !.trafficSignIndex_ = clear(@)]

\* the ids of S in ascending order
RECURSIVE Ascending(_)
Ascending(S) ==
  IF S = {} THEN <<>>
  ELSE LET m == CHOOSE x \in S : \A y \in S : x <= y IN <<m>> \o Ascending(S \ {m})

Reverse(s) == [i \in 1..Len(s) |-> s[Len(s) + 1 - i]]

\* the iteration order of an unordered_map is unspecified: the model takes the
\* ascending or the descending order of the ids
IterationOrder(S, order) == IF order = "asc" THEN Ascending(S) ELSE Reverse(Ascending(S))

\* one of the three loops of buildSpatialIndices
RECURSIVE InsertAll(_, _, _, _)
InsertAll(t, ids, box, i) ==
  IF i > Len(ids) THEN t
  ELSE InsertAll(insert(t, box[ids[i]], EntRef(ids[i])), ids, box, i + 1)

buildSpatialIndices(st, order) ==
  LET lanes == [id \in DOMAIN st.lanes_ |->
                  [st.lanes_[id] EXCEPT !.bbox_ = computeBoundingBox(st.lanes_[id])]]
      laneBox == [id \in DOMAIN lanes |-> lanes[id].bbox_]
      lightBox == [id \in DOMAIN st.trafficLights_ |->
                     [min_ |-> st.trafficLights_[id].position_,
                      max_ |-> st.trafficLights_[id].position_]]
      signBox == [id \in DOMAIN st.trafficSigns_ |->
                    [min_ |-> st.trafficSigns_[id].position_,
                     max_ |-> st.trafficSigns_[id].position_]]
  IN [st EXCEPT
        !.lanes_ = lanes,
        !.laneIndex_ = InsertAll(clear(@), IterationOrder(DOMAIN lanes, order), laneBox, 1),
        !.trafficLightIndex_ =
           InsertAll(clear(@), IterationOrder(DOMAIN st.trafficLights_, order), lightBox, 1),
        !.trafficSignIndex_ =
           InsertAll(clear(@), IterationOrder(DOMAIN st.trafficSigns_, order), signBox, 1)]

\* MapServer::loadFromFile: its return value and the store it leaves
loadFromFile(st, file, order) ==
  LET st0 == clearStore(st)
      p == parse(file)
      st1 == [st0 EXCEPT !.lanes_ = p.lanes, !.trafficLights_ = p.lights,
                         !.trafficSigns_ = p.signs]
  IN IF ~p.ok THEN [ret |-> FALSE, store |-> st0]
     ELSE IF ~checkMemoryConstraints(st1) THEN [ret |-> FALSE, store |-> clearStore(st1)]
     ELSE [ret |-> TRUE, store |-> buildSpatialIndices(st1, order)]

-----------------------------------------------------------------------------
(* The index driven directly: insert, query, clear *)

Boxes == <<BoundingBox(2, 2, 3, 3), BoundingBox(1, 1, 4, 4), BoundingBox(0, 0, 5, 5)>>

NoBox == <<>>

\* MemoryConstraints::defaultConstraints()
DefaultConstraints ==
  [maxTotalMemory |-> 64 * 1024 * 1024, maxLanes |-> 10000,
   maxTrafficLights |-> 5000, maxTrafficSigns |-> 5000]

NoFile == [readable |-> FALSE, nodes |-> EmptyMap, ways |-> <<>>, relations |-> <<>>]

\* no Lane object has been built
NoLane == <<>>

Init ==
  /\ tree = NewTree
  /\ inserted = <<>>
  /\ changes = 0
  /\ cleared = FALSE
  /\ qbox = NoBox
  /\ results = <<>>
  /\ store = NewStore(DefaultConstraints)
  /\ lastCall = "none"
  /\ lastFile = NoFile
  /\ loadResult = <<>>
  /\ freed = {}
  /\ held = {}
  /\ call = <<>>
  /\ ret = <<>>
  /\ queries = 0
  /\ pc = "idle"
  /\ loading = NoFile
  /\ seen = <<>>
  /\ laneObj = NoLane

Insert(b) ==
  /\ ~tree.corrupt
  /\ Len(inserted) < (IF cleared THEN MaxInsertsAfterClear ELSE MaxInserts)
  /\ LET chg == IF inserted # <<>> /\ inserted[Len(inserted)] # b THEN 1 ELSE 0 IN
       /\ changes + chg <= MaxChanges
       /\ changes' = changes + chg
  /\ tree' = insert(tree, b, EntRef(Len(inserted) + 1))
  /\ inserted' = Append(inserted, b)
  /\ qbox' = NoBox
  /\ results' = <<>>
  /\ UNCHANGED <<cleared, serverVars, queryVars, loaderVars, laneObj>>

\* query(q, results) on a fresh results vector.  When queryNode would read a map
\* element as a node the call is undefined: it may crash, return nothing or
\* return whatever the misread memory holds.
QueryBoxes == {BoundingBox(0, 0, 0, 0), BoundingBox(3, 3, 4, 4), BoundingBox(6, 6, 7, 7)}

UndefinedResults == {<<>>, <<EntRef(1), EntRef(1)>>, <<EntRef(2)>>}

Query(q) ==
  /\ ~tree.corrupt
  /\ qbox' = <<q>>
  /\ IF QuerySafe(tree, tree.root, q)
     THEN results' = query(tree, q) /\ tree' = tree
     ELSE results' \in UndefinedResults /\ tree' = Corrupt(tree)
  /\ UNCHANGED <<inserted, changes, cleared, serverVars, queryVars, loaderVars, laneObj>>

Clear ==
  /\ ~tree.corrupt
  /\ tree' = clear(tree)
  /\ inserted' = <<>>
  /\ changes' = 0
  /\ cleared' = TRUE
  /\ qbox' = NoBox
  /\ results' = <<>>
  /\ UNCHANGED <<serverVars, queryVars, loaderVars, laneObj>>

Next ==
  \/ \E i \in 1..Len(Boxes) : Insert(Boxes[i])
  \/ \E q \in QueryBoxes : Query(q)
  \/ Clear

Spec == Init /\ [][Next]_vars

-----------------------------------------------------------------------------
(* The map store driven through loadFromFile and clear *)

\* lane i runs from (10 i, 10 i) to (10 i + 5, 10 i + 5) over the nodes 2 i - 1 and 2 i
MapFile(nLanes, nLights, nSigns) ==
  [readable |-> TRUE,
   nodes |-> [n \in 1..(2 * Max2(nLanes, 1)) |->
                IF n % 2 = 1 THEN Point2D(5 * (n + 1), 5 * (n + 1))
                ELSE Point2D(5 * n + 5, 5 * n + 5)],
   ways |-> [i \in 1..nLanes |->
               [id |-> 100 + i, isCenterline |-> TRUE, refs |-> <<2 * i - 1, 2 * i>>]]
            \o <<[id |-> 900, isCenterline |-> FALSE, refs |-> <<1, 2>>],
                 [id |-> 901, isCenterline |-> TRUE, refs |-> <<7777>>]>>,
   relations |-> [j \in 1..nLights |->
                    [id |-> 200 + j, regulatory |-> TRUE, subtype |-> "traffic_light"]]
                 \o [k \in 1..nSigns |->
                       [id |-> 300 + k, regulatory |-> TRUE, subtype |-> "traffic_sign"]]
                 \o <<[id |-> 400, regulatory |-> FALSE, subtype |-> "traffic_light"],
                      [id |-> 401, regulatory |-> TRUE, subtype |-> "other"]>>]

\* a file that opens and holds no <node> tag
NoNodesFile == [readable |-> TRUE, nodes |-> EmptyMap, ways |-> <<>>, relations |-> <<>>]

LaneCounts == {0, 1, 2, 9, 10}
LightCounts == {0, 2, 3}
SignCounts == {0, 2, 3}

Files ==
  {NoFile, NoNodesFile}
    \cup {MapFile(l, t, s) : l \in LaneCounts, t \in LightCounts, s \in SignCounts}

\* the constraints the store is constructed with: a budget that two lanes, two
\* lights and two signs fill exactly, and one that only the counts can exceed
ConstraintChoices ==
  {[maxTotalMemory |-> m, maxLanes |-> 9, maxTrafficLights |-> 2, maxTrafficSigns |-> 2] :
     m \in {2 * (SizeofLane + 2 * SizeofPoint2D) + 2 * SizeofTrafficLight
              + 2 * (SizeofTrafficSign + EmptyStringCapacity),
            64 * 1024 * 1024}}

InitServer ==
  /\ tree = NewTree
  /\ inserted = <<>>
  /\ changes = 0
  /\ cleared = FALSE
  /\ qbox = NoBox
  /\ results = <<>>
  /\ \E c \in ConstraintChoices : store = NewStore(c)
  /\ lastCall = "none"
  /\ lastFile = NoFile
  /\ loadResult = <<>>
  /\ freed = {}
  /\ held = {}
  /\ call = <<>>
  /\ ret = <<>>
  /\ queries = 0
  /\ pc = "idle"
  /\ loading = NoFile
  /\ seen = <<>>
  /\ laneObj = NoLane

\* undefined behaviour has occurred in one of the three indices
StoreCorrupt(st) ==
  st.laneIndex_.corrupt \/ st.trafficLightIndex_.corrupt \/ st.trafficSignIndex_.corrupt

\* loadResult is <<b>> when the call returned b.  A call in which an index ran
\* into undefined behaviour either returns what it computed or never returns.
LoadFromFile(file, order) ==
  /\ ~StoreCorrupt(store)
  /\ freed = {} /\ held = {}
  /\ pc = "idle"
  /\ LET r == loadFromFile(store, file, order) IN
       /\ store' = r.store
       /\ IF StoreCorrupt(r.store) THEN loadResult' \in {<<r.ret>>, <<>>}
          ELSE loadResult' = <<r.ret>>
  /\ lastCall' = "load"
  /\ lastFile' = file
  /\ call' = <<>>
  /\ ret' = <<>>
  /\ queries' = 0
  /\ UNCHANGED <<treeVars, freed, held, loaderVars, laneObj>>

ClearStore ==
  /\ ~StoreCorrupt(store)
  /\ freed = {} /\ held = {}
  /\ pc = "idle"
  /\ store' = clearStore(store)
  /\ lastCall' = "clear"
  /\ call' = <<>>
  /\ ret' = <<>>
  /\ queries' = 0
  /\ UNCHANGED <<lastFile, loadResult, treeVars, freed, held, loaderVars, laneObj>>

NextServer ==
  \/ \E f \in Files, o \in {"asc", "desc"} : LoadFromFile(f, o)
  \/ ClearStore

SpecServer == InitServer /\ [][NextServer]_vars

-----------------------------------------------------------------------------
(* Structure of the index *)

Range(s) == {s[i] : i \in 1..Len(s)}

\* how often x occurs in the sequence s
Count(s, x) == Cardinality({i \in 1..Len(s) : s[i] = x})

\* the nodes reachable from node n through entries that refer to nodes
RECURSIVE Reach(_, _)
Reach(t, n) ==
  {n} \cup UNION {Reach(t, t.nodes[n].entries[i].data.id) :
                    i \in {j \in 1..Len(t.nodes[n].entries) :
                             t.nodes[n].entries[j].data.k = "node"}}

\* the entries of the LEAF nodes reachable from the root, as (node, index) pairs
LeafEntries(t) ==
  {<<n, i>> \in Reach(t, t.root) \X (1..MAX_RTREE_ENTRIES) :
     isLeaf(t.nodes[n]) /\ i <= Len(t.nodes[n].entries)}

\* every entry of every INTERNAL node carries the union of its child's entry boxes
Tight(t) ==
  \A n \in Reach(t, t.root) :
    ~isLeaf(t.nodes[n]) =>
      \A i \in 1..Len(t.nodes[n].entries) :
        LET e == t.nodes[n].entries[i] IN
        e.data.k = "node" /\ e.bbox = getBoundingBox(t.nodes[e.data.id].entries)

\* the index a fresh RTree becomes under the inserts of the history
RECURSIVE Replay(_, _)
Replay(boxes, n) ==
  IF n = 0 THEN NewTree ELSE insert(Replay(boxes, n - 1), boxes[n], EntRef(n))

-----------------------------------------------------------------------------
(* The queries of the map store (map_server.cpp, lines 66-228).  A pointer to a
   map element is the element's id; the kind is known from the list it is in.
   queryRegion and queryRadius build a new std::shared_ptr from each raw pointer
   an index returns: an owner of its own, which deletes the element when it is
   destroyed although the mapping still holds it.  That delete is undefined
   behaviour; the element is then in freed, and what a later read of it yields
   is open. *)

Elems(kind, ids) == {<<kind, id>> : id \in ids}

\* the elements of s at the positions P, in order
RECURSIVE SubSeqAt(_, _, _)
SubSeqAt(s, P, i) ==
  IF i > Len(s) THEN <<>>
  ELSE (IF i \in P THEN <<s[i]>> ELSE <<>>) \o SubSeqAt(s, P, i + 1)

\* RTree::queryRadius: the box it hands to query
SquareAround(center, radius) ==
  BoundingBox(center.x_ - radius, center.y_ - radius, center.x_ + radius, center.y_ + radius)

queryRadius(t, center, radius) == query(t, SquareAround(center, radius))

\* what a query that reads a map element as a node may leave in the results
\* vector: nothing, a pointer to nothing that is stored, or a pointer twice
UndefinedHits(ids) == {<<>>, <<0>>} \cup {<<id, id>> : id \in ids}

\* the pointers query(bbox) on index t may return; ids are the ids of its mapping
IndexHits(t, ids, bbox) ==
  IF ~t.corrupt /\ QuerySafe(t, t.root, bbox)
  THEN LET r == query(t, bbox) IN {[i \in 1..Len(r) |-> r[i].id]}
  ELSE UndefinedHits(ids)

\* MapServer::queryRegion: the values it may return
queryRegion(st, region) ==
  {[lanes_ |-> l, trafficLights_ |-> t, trafficSigns_ |-> g] :
     l \in IndexHits(st.laneIndex_, DOMAIN st.lanes_, region),
     t \in IndexHits(st.trafficLightIndex_, DOMAIN st.trafficLights_, region),
     g \in IndexHits(st.trafficSignIndex_, DOMAIN st.trafficSigns_, region)}

\* the map elements a QueryResult owns
OwnedBy(r) ==
  Elems("lane", Range(r.lanes_)) \cup Elems("light", Range(r.trafficLights_))
    \cup Elems("sign", Range(r.trafficSigns_))

\* center.distanceTo(point) <= radius, on integers
Within(center, point, radius) == distanceSq(center, point) <= radius * radius

\* lines 103-109: some centerline point is within the radius
LaneWithin(l, center, radius) ==
  \E i \in 1..Len(l.centerline_) : Within(center, l.centerline_[i], radius)

\* the pointer id refers to an element of mapping m that has not been deleted
Readable(m, kind, fr, id) == id \in DOMAIN m /\ <<kind, id>> \notin fr

\* One filter loop of queryRadius over the hits hs: [kept, dropped].  pass is the
\* set of ids that pass the distance test.  A hit that passes is kept in the
\* result; the shared_ptr of a hit that fails dies with the iteration and deletes
\* the element.  The test on an element that cannot be read is open.
FilterOutcomes(hs, m, kind, fr, pass) ==
  LET sure == {i \in 1..Len(hs) : Readable(m, kind, fr, hs[i]) /\ hs[i] \in pass}
      open == {i \in 1..Len(hs) : ~Readable(m, kind, fr, hs[i])}
  IN {[kept |-> SubSeqAt(hs, sure \cup X, 1),
       dropped |-> Elems(kind, {hs[i] : i \in (1..Len(hs)) \ (sure \cup X)})] :
        X \in SUBSET open}

\* one of the three blocks of queryRadius: [hits, kept, dropped]
RadiusBlock(t, m, kind, fr, center, radius, pass) ==
  UNION {{[hits |-> h, kept |-> f.kept, dropped |-> f.dropped] :
            f \in FilterOutcomes(h, m, kind, fr, pass)} :
           h \in IndexHits(t, DOMAIN m, SquareAround(center, radius))}

\* MapServer::queryRadius: [value, hits, deleted] for each way the call may go
queryRadiusStore(st, fr, center, radius) ==
  LET lanesIn == {id \in DOMAIN st.lanes_ : LaneWithin(st.lanes_[id], center, radius)}
      lightsIn == {id \in DOMAIN st.trafficLights_ :
                     Within(center, st.trafficLights_[id].position_, radius)}
      signsIn == {id \in DOMAIN st.trafficSigns_ :
                    Within(center, st.trafficSigns_[id].position_, radius)}
  IN {[value |-> [lanes_ |-> l.kept, trafficLights_ |-> t.kept, trafficSigns_ |-> g.kept],
       hits |-> [lanes_ |-> l.hits, trafficLights_ |-> t.hits, trafficSigns_ |-> g.hits],
       deleted |-> l.dropped \cup t.dropped \cup g.dropped] :
        l \in RadiusBlock(st.laneIndex_, st.lanes_, "lane", fr, center, radius, lanesIn),
        t \in RadiusBlock(st.trafficLightIndex_, st.trafficLights_, "light", fr,
                          center, radius, lightsIn),
        g \in RadiusBlock(st.trafficSignIndex_, st.trafficSigns_, "sign", fr,
                          center, radius, signsIn)}

\* MapServer::getNearbyLanes: the lanes of queryRadius; the QueryResult dies at the
\* return and deletes the lights and signs it owns
getNearbyLanes(st, fr, position, maxDistance) ==
  {[value |-> o.value.lanes_, hits |-> o.hits,
    deleted |-> o.deleted \cup Elems("light", Range(o.value.trafficLights_))
                  \cup Elems("sign", Range(o.value.trafficSigns_))] :
     o \in queryRadiusStore(st, fr, position, maxDistance)}

\* the two radii of getClosestLane
SearchRadius == 50
LargerSearchRadius == 200

\* the square of the distance from position to the nearest centerline point of l
MinDistSq(l, position) ==
  LET D == {distanceSq(position, l.centerline_[i]) : i \in 1..Len(l.centerline_)}
  IN CHOOSE d \in D : \A e \in D : d <= e

\* lines 184-195: the candidate that owns the first point, in scan order, that is
\* nearer than every point before it
ClosestOf(cs, m, position) ==
  LET i == CHOOSE k \in 1..Len(cs) :
             /\ \A j \in 1..Len(cs) : MinDistSq(m[cs[k]], position) <= MinDistSq(m[cs[j]], position)
             /\ \A j \in 1..(k - 1) : MinDistSq(m[cs[j]], position) > MinDistSq(m[cs[k]], position)
  IN cs[i]

\* the lane the scan may end with: any candidate when one of them cannot be read
ScanOutcomes(cs, m, fr, position) ==
  IF \A i \in 1..Len(cs) : Readable(m, "lane", fr, cs[i])
  THEN {ClosestOf(cs, m, position)}
  ELSE Range(cs)

\* MapServer::getClosestLane: [value, hits, deleted]; value is <<id>> or <<>> for
\* std::nullopt.  The candidates die at the return, all but the one returned.
getClosestLane(st, fr, position) ==
  LET Finish(n, before) ==
        {[value |-> <<c>>, hits |-> n.hits,
          deleted |-> before \cup n.deleted \cup Elems("lane", Range(n.value) \ {c})] :
           c \in ScanOutcomes(n.value, st.lanes_, fr \cup before, position)}
      Retry(n1) ==
        UNION {IF n2.value # <<>> THEN Finish(n2, n1.deleted)
               ELSE {[value |-> <<>>, hits |-> n2.hits, deleted |-> n1.deleted \cup n2.deleted]} :
                 n2 \in getNearbyLanes(st, fr \cup n1.deleted, position, LargerSearchRadius)}
  IN UNION {IF n1.value # <<>> THEN Finish(n1, {}) ELSE Retry(n1) :
              n1 \in getNearbyLanes(st, fr, position, SearchRadius)}

\* the three lookups by id: <<element>> when found, <<>> for std::nullopt
getLaneById(st, laneId) ==
  IF laneId \in DOMAIN st.lanes_ THEN <<st.lanes_[laneId]>> ELSE <<>>

\* a lookup of traffic lights that also finds the lanes' ids
getTrafficLightById_SharedIds(st, id) ==
  IF id \in DOMAIN st.trafficLights_ THEN <<st.trafficLights_[id]>>
  ELSE IF id \in DOMAIN st.lanes_ THEN <<st.lanes_[id]>> ELSE <<>>

getTrafficLightById(st, id) ==
  IF id \in DOMAIN st.trafficLights_ THEN <<st.trafficLights_[id]>> ELSE <<>>

getTrafficSignById(st, id) ==
  IF id \in DOMAIN st.trafficSigns_ THEN <<st.trafficSigns_[id]>> ELSE <<>>

\* getTrafficLightsForLane: the lights, in iteration order, that list laneId; the
\* shared_ptr copies it returns share the mapping's ownership
getTrafficLightsForLane(st, fr, laneId, order) ==
  LET m == st.trafficLights_
      pass == {id \in DOMAIN m : laneId \in Range(m[id].controlledLaneIds_)}
  IN {f.kept : f \in FilterOutcomes(IterationOrder(DOMAIN m, order), m, "light", fr, pass)}

getTrafficSignsForLane(st, fr, laneId, order) ==
  LET m == st.trafficSigns_
      pass == {id \in DOMAIN m : laneId \in Range(m[id].affectedLaneIds_)}
  IN {f.kept : f \in FilterOutcomes(IterationOrder(DOMAIN m, order), m, "sign", fr, pass)}

-----------------------------------------------------------------------------
(* The map store under load, queries, and the caller dropping what it got *)

\* a query is issued between two loads, after the caller dropped the last value
CanQuery == pc = "idle" /\ held = {} /\ queries < MaxQueries

\* the query op(arg) returns as o = [value, hits, deleted]; own are the elements
\* the returned value owns by shared_ptrs of its own
Returns(op, arg, o, own) ==
  /\ call' = <<op, arg>>
  /\ ret' = [value |-> o.value, hits |-> o.hits]
  /\ freed' = freed \cup o.deleted
  /\ held' = own
  /\ queries' = queries + 1
  /\ lastCall' = "query"
  /\ UNCHANGED <<store, lastFile, loadResult, treeVars, loaderVars, laneObj>>

QueryRegion(region) ==
  /\ CanQuery
  /\ \E r \in queryRegion(store, region) :
       Returns("queryRegion", region, [value |-> r, hits |-> r, deleted |-> {}], OwnedBy(r))

QueryRadius(center, radius) ==
  /\ CanQuery
  /\ \E o \in queryRadiusStore(store, freed, center, radius) :
       Returns("queryRadius", <<center, radius>>, o, OwnedBy(o.value))

GetNearbyLanes(position, maxDistance) ==
  /\ CanQuery
  /\ \E o \in getNearbyLanes(store, freed, position, maxDistance) :
       Returns("getNearbyLanes", <<position, maxDistance>>, o, Elems("lane", Range(o.value)))

GetClosestLane(position) ==
  /\ CanQuery
  /\ \E o \in getClosestLane(store, freed, position) :
       Returns("getClosestLane", position, o, Elems("lane", Range(o.value)))

\* a lookup returns a copy of the mapping's shared_ptr: it owns nothing of its own
Looked(op, arg, v) == Returns(op, arg, [value |-> v, hits |-> <<>>, deleted |-> {}], {})

GetLaneById(id) == CanQuery /\ Looked("getLaneById", id, getLaneById(store, id))

GetTrafficLightById(id) ==
  CanQuery /\ Looked("getTrafficLightById", id, getTrafficLightById(store, id))

GetTrafficSignById(id) ==
  CanQuery /\ Looked("getTrafficSignById", id, getTrafficSignById(store, id))

GetTrafficLightsForLane(laneId) ==
  /\ CanQuery
  /\ \E order \in {"asc", "desc"} :
       \E v \in getTrafficLightsForLane(store, freed, laneId, order) :
         Looked("getTrafficLightsForLane", laneId, v)

GetTrafficSignsForLane(laneId) ==
  /\ CanQuery
  /\ \E order \in {"asc", "desc"} :
       \E v \in getTrafficSignsForLane(store, freed, laneId, order) :
         Looked("getTrafficSignsForLane", laneId, v)

\* the caller lets go of the value the last query returned: every shared_ptr in
\* it deletes its element
DropResult ==
  /\ pc = "idle"
  /\ held # {}
  /\ freed' = freed \cup held
  /\ held' = {}
  /\ lastCall' = "drop"
  /\ UNCHANGED <<store, lastFile, loadResult, call, ret, queries, treeVars, loaderVars, laneObj>>

\* the inputs of the queries
QueryFiles == {MapFile(2, 2, 2), MapFile(9, 0, 0), MapFile(1, 0, 0), NoFile}
RegionBoxes == {BoundingBox(0, 0, 100, 100), BoundingBox(12, 12, 23, 23),
                BoundingBox(500, 500, 600, 600)}
RadiusArgs == {<<Point2D(0, 0), 15>>, <<Point2D(0, 0), 12>>, <<Point2D(300, 300), 10>>}
Positions == {Point2D(0, 0), Point2D(63, 63), Point2D(400, 400)}
NearbyArgs == {<<Point2D(0, 0), 12>>}
LookupIds == {101, 201, 7}
LaneIds == {101}

NextQuery ==
  \/ \E f \in QueryFiles, o \in {"asc", "desc"} : LoadFromFile(f, o)
  \/ \E b \in RegionBoxes : QueryRegion(b)
  \/ \E a \in RadiusArgs : QueryRadius(a[1], a[2])
  \/ \E a \in NearbyArgs : GetNearbyLanes(a[1], a[2])
  \/ \E p \in Positions : GetClosestLane(p)
  \/ \E id \in LookupIds : GetLaneById(id)
  \/ \E id \in LookupIds : GetTrafficLightById(id)
  \/ \E id \in LookupIds : GetTrafficSignById(id)
  \/ \E id \in LaneIds : GetTrafficLightsForLane(id)
  \/ \E id \in LaneIds : GetTrafficSignsForLane(id)
  \/ DropResult

SpecQuery == InitServer /\ [][NextQuery]_vars

-----------------------------------------------------------------------------
(* Lane::computeBoundingBox on lanes built by hand *)

\* the longest polyline of a lane built by hand
MaxPolyLen == 2

\* the points the polylines are made of
PolyPoints == {Point2D(0, 0), Point2D(2, 1), Point2D(-1, 3)}

\* the polylines of at most MaxPolyLen points
Polylines == UNION {[1..n -> PolyPoints] : n \in 0..MaxPolyLen}

\* a default-constructed Lane with its three polylines filled in
HandBuiltLane(centerline, left, right) ==
  [Lane(0, centerline) EXCEPT !.leftBoundary_ = left, !.rightBoundary_ = right]

InitLane ==
  /\ tree = NewTree
  /\ inserted = <<>>
  /\ changes = 0
  /\ cleared = FALSE
  /\ qbox = NoBox
  /\ results = <<>>
  /\ store = NewStore(DefaultConstraints)
  /\ lastCall = "none"
  /\ lastFile = NoFile
  /\ loadResult = <<>>
  /\ freed = {}
  /\ held = {}
  /\ call = <<>>
  /\ ret = <<>>
  /\ queries = 0
  /\ pc = "idle"
  /\ loading = NoFile
  /\ seen = <<>>
  /\ \E c \in Polylines, l \in Polylines, r \in Polylines :
       laneObj = HandBuiltLane(c, l, r)

\* lane.computeBoundingBox()
ComputeBoundingBox ==
  /\ laneObj' = [laneObj EXCEPT !.bbox_ = computeBoundingBox(laneObj)]
  /\ lastCall' = "computeBoundingBox"
  /\ UNCHANGED <<treeVars, store, lastFile, loadResult, queryVars, loaderVars>>

NextLane == ComputeBoundingBox

SpecLane == InitLane /\ [][NextLane]_vars

-----------------------------------------------------------------------------
(* loadFromFile step by step, with a reader on another thread.  The store has  *)
(* no lock: the reader sees the store as it is between any two steps.          *)

\* line 26: clear()
LoadClear(file) ==
  /\ pc = "idle"
  /\ ~StoreCorrupt(store)
  /\ store' = clearStore(store)
  /\ loading' = file
  /\ pc' = "parse"
  /\ lastCall' = "load"
  /\ lastFile' = file
  /\ loadResult' = <<>>
  /\ UNCHANGED <<treeVars, queryVars, seen, laneObj>>

\* the call returns b, or never returns when an index ran into undefined behaviour
LoadReturns(b) ==
  /\ pc' = "idle"
  /\ IF StoreCorrupt(store') THEN loadResult' \in {<<b>>, <<>>} ELSE loadResult' = <<b>>
  /\ UNCHANGED <<treeVars, queryVars, lastCall, lastFile, loading, seen, laneObj>>

\* lines 28-31: parser.parse(filepath, *this) fills the three mappings
LoadParse ==
  /\ pc = "parse"
  /\ LET p == parse(loading) IN
       IF ~p.ok THEN store' = store /\ LoadReturns(FALSE)
       ELSE /\ store' = [store EXCEPT !.lanes_ = p.lanes, !.trafficLights_ = p.lights,
                                      !.trafficSigns_ = p.signs]
            /\ pc' = "check"
            /\ UNCHANGED <<treeVars, queryVars, lastCall, lastFile, loadResult, loading,
                           seen, laneObj>>

\* lines 33-36: the budget check, and clear() when it fails
LoadCheck ==
  /\ pc = "check"
  /\ IF ~checkMemoryConstraints(store)
     THEN store' = clearStore(store) /\ LoadReturns(FALSE)
     ELSE /\ pc' = "lanes"
          /\ UNCHANGED <<treeVars, serverVars, queryVars, loading, seen, laneObj>>

\* buildSpatialIndices, lines 44-49: the lane index
LoadBuildLanes(order) ==
  /\ pc = "lanes"
  /\ LET lanes == [id \in DOMAIN store.lanes_ |->
                     [store.lanes_[id] EXCEPT !.bbox_ = computeBoundingBox(store.lanes_[id])]]
         laneBox == [id \in DOMAIN lanes |-> lanes[id].bbox_]
     IN store' = [store EXCEPT
                    !.lanes_ = lanes,
                    !.laneIndex_ = InsertAll(clear(@), IterationOrder(DOMAIN lanes, order),
                                             laneBox, 1)]
  /\ pc' = "lights"
  /\ UNCHANGED <<treeVars, queryVars, lastCall, lastFile, loadResult, loading, seen, laneObj>>

\* buildSpatialIndices, lines 51-56: the traffic light index
LoadBuildLights(order) ==
  /\ pc = "lights"
  /\ LET lightBox == [id \in DOMAIN store.trafficLights_ |->
                        [min_ |-> store.trafficLights_[id].position_,
                         max_ |-> store.trafficLights_[id].position_]]
     IN store' = [store EXCEPT
                    !.trafficLightIndex_ =
                       InsertAll(clear(@), IterationOrder(DOMAIN store.trafficLights_, order),
                                 lightBox, 1)]
  /\ pc' = "signs"
  /\ UNCHANGED <<treeVars, queryVars, lastCall, lastFile, loadResult, loading, seen, laneObj>>

\* buildSpatialIndices, lines 58-63: the traffic sign index; loadFromFile returns true
LoadBuildSigns(order) ==
  /\ pc = "signs"
  /\ LET signBox == [id \in DOMAIN store.trafficSigns_ |->
                       [min_ |-> store.trafficSigns_[id].position_,
                        max_ |-> store.trafficSigns_[id].position_]]
     IN store' = [store EXCEPT
                    !.trafficSignIndex_ =
                       InsertAll(clear(@), IterationOrder(DOMAIN store.trafficSigns_, order),
                                 signBox, 1)]
  /\ LoadReturns(TRUE)

\* a query on another thread reads the store as it is now
Observe ==
  /\ seen' = <<store>>
  /\ UNCHANGED <<treeVars, serverVars, queryVars, pc, loading, laneObj>>

Orders == {"asc", "desc"}

NextConcurrent ==
  \/ \E file \in Files : LoadClear(file)
  \/ LoadParse
  \/ LoadCheck
  \/ \E order \in Orders : LoadBuildLanes(order)
  \/ \E order \in Orders : LoadBuildLights(order)
  \/ \E order \in Orders : LoadBuildSigns(order)
  \/ Observe

SpecConcurrent == InitServer /\ [][NextConcurrent]_vars

-----------------------------------------------------------------------------
(* Claims *)

\* C1: after any sequence of inserts on a freshly constructed index, query(q)
\* returns every inserted entry whose box intersects q.
C1_NoFalseNegatives ==
  (~cleared /\ qbox # NoBox) =>
    \A i \in 1..Len(inserted) :
      intersects(inserted[i], qbox[1]) => EntRef(i) \in Range(results)

\* C2: after any sequence of inserts, every entry of every INTERNAL node has the
\* exact union of the boxes of its child's entries.
C2_Tightness == ~cleared => Tight(tree)

\* C3: clear() leaves a single empty LEAF root, and the inserts and queries after
\* it give the results, size() and height() they give on a fresh index.
C3_ClearResets ==
  cleared =>
    /\ ~tree.corrupt
    /\ isLeaf(tree.nodes[tree.root])
    /\ DOMAIN tree.nodes = Reach(tree, tree.root)
    /\ LET fresh == Replay(inserted, Len(inserted)) IN
         /\ size(tree) = size(fresh)
         /\ height(tree) = height(fresh)
         /\ qbox # NoBox => results = query(fresh, qbox[1])

\* C4: size() equals the number of inserts since construction or the last clear()
\* and the number of leaf entries reachable from the root; right after clear()
\* size() is 0 and a query returns nothing.
C4_SizeCountsEntries ==
  /\ size(tree) = Len(inserted)
  /\ Cardinality(LeafEntries(tree)) = size(tree)
  /\ (cleared /\ inserted = <<>>) => (size(tree) = 0 /\ results = <<>>)

\* C5: query(q) returns only inserted entries whose own box intersects q, each at
\* most as often as it was inserted (once: every insert has its own payload), and
\* nothing on an empty index or for a q disjoint from every inserted box.
C5_QuerySound ==
  qbox # NoBox =>
    /\ \A k \in 1..Len(results) :
         /\ results[k].k = "ent"
         /\ results[k].id \in 1..Len(inserted)
         /\ intersects(inserted[results[k].id], qbox[1])
    /\ \A i \in 1..Len(inserted) : Count(results, EntRef(i)) <= 1
    /\ (\A i \in 1..Len(inserted) : ~intersects(inserted[i], qbox[1])) => results = <<>>

\* C6: in every state reached by inserts alone, every node, leaf or internal,
\* holds at most MAX_RTREE_ENTRIES entries.
C6_CapacityBound ==
  ~cleared => \A n \in DOMAIN tree.nodes : Len(tree.nodes[n].entries) <= MAX_RTREE_ENTRIES

\* a cascading split has happened (an internal node was split) and left a full node
C6_Witness ==
  /\ ~cleared
  /\ height(tree) >= 3
  /\ \E n \in DOMAIN tree.nodes :
       ~isLeaf(tree.nodes[n]) /\ n # tree.root /\ Len(tree.nodes[n].entries) = MAX_RTREE_ENTRIES

\* the insert that leads from t to u split the root of t
RootWasSplit(t, u) ==
  /\ u.root \notin DOMAIN t.nodes
  /\ Len(u.nodes[u.root].entries) = 2
  /\ u.nodes[u.root].entries[1].data = NodeRef(t.root)
  /\ u.nodes[t.root].parent = u.root

\* C7: on an index that was never cleared, height() is 1 while at most 8 entries
\* were inserted and more than 1 afterwards; an insert never lowers it, raises it
\* by at most 1, and raises it only by splitting the root.
C7_HeightGrowth ==
  /\ [](~cleared =>
          IF Len(inserted) <= MAX_RTREE_ENTRIES THEN height(tree) = 1 ELSE height(tree) > 1)
  /\ [][(~cleared' /\ inserted' # inserted) =>
          /\ height(tree') >= height(tree)
          /\ height(tree') <= height(tree) + 1
          /\ height(tree') > height(tree) => RootWasSplit(tree, tree')]_vars

\* the root was split a second time
C7_Witness == ~cleared /\ height(tree) = 3 /\ Len(inserted) = 2 * MAX_RTREE_ENTRIES

\* the index holds exactly one leaf entry for each id of ids and no other leaf entry
IndexHolds(t, ids) ==
  /\ ~t.corrupt
  /\ \A id \in ids :
       Cardinality({e \in LeafEntries(t) : t.nodes[e[1]].entries[e[2]].data = EntRef(id)}) = 1
  /\ \A e \in LeafEntries(t) : t.nodes[e[1]].entries[e[2]].data \in {EntRef(id) : id \in ids}

\* the index is what the constructor builds: a single empty LEAF root
FreshIndex(t) ==
  /\ ~t.corrupt
  /\ DOMAIN t.nodes = {t.root}
  /\ isLeaf(t.nodes[t.root])
  /\ t.nodes[t.root].entries = <<>>
  /\ t.nodes[t.root].parent = NullNode
  /\ size(t) = 0

\* C8: whenever loadFromFile returns false the store is in the state of a freshly
\* constructed store: empty mappings and three empty indices.
C8_FailedLoadLeavesFreshStore ==
  (lastCall = "load" /\ loadResult = <<FALSE>>) =>
    /\ store.lanes_ = EmptyMap
    /\ store.trafficLights_ = EmptyMap
    /\ store.trafficSigns_ = EmptyMap
    /\ FreshIndex(store.laneIndex_)
    /\ FreshIndex(store.trafficLightIndex_)
    /\ FreshIndex(store.trafficSignIndex_)

\* C9: when the most recent loadFromFile returned true, each kind's index holds
\* exactly one leaf entry per entity of the kind's mapping and nothing else.
C9_IndexMatchesStore ==
  loadResult = <<TRUE>> =>
    /\ IndexHolds(store.laneIndex_, DOMAIN store.lanes_)
    /\ IndexHolds(store.trafficLightIndex_, DOMAIN store.trafficLights_)
    /\ IndexHolds(store.trafficSignIndex_, DOMAIN store.trafficSigns_)

\* the estimate the budget check takes of the parsed collections p: the entity
\* costs, the indices being empty at that point
EstimateAtCheck(p, c) ==
  getMemoryUsage([NewStore(c) EXCEPT !.lanes_ = p.lanes, !.trafficLights_ = p.lights,
                                     !.trafficSigns_ = p.signs])

OverBudget(p, c) ==
  \/ Cardinality(DOMAIN p.lanes) > c.maxLanes
  \/ Cardinality(DOMAIN p.lights) > c.maxTrafficLights
  \/ Cardinality(DOMAIN p.signs) > c.maxTrafficSigns
  \/ EstimateAtCheck(p, c) > c.maxTotalMemory

\* C10: for a file the parser accepts, a loadFromFile call that returns returns
\* false exactly when a count or the estimate exceeds its limit; a value equal to
\* its limit is accepted.
C10_BudgetGate ==
  (lastCall = "load" /\ loadResult # <<>> /\ parse(lastFile).ok) =>
    (loadResult = <<FALSE>> <=> OverBudget(parse(lastFile), store.constraints_))

\* a load was accepted with the estimate and two counts exactly at their limits
C10_Witness ==
  /\ lastCall = "load"
  /\ loadResult = <<TRUE>>
  /\ EstimateAtCheck(parse(lastFile), store.constraints_) = store.constraints_.maxTotalMemory
  /\ Cardinality(DOMAIN store.trafficLights_) = store.constraints_.maxTrafficLights
  /\ Cardinality(DOMAIN store.trafficSigns_) = store.constraints_.maxTrafficSigns


\* the sequence seq holds exactly the elements of the set S, each once
ExactlyOnce(seq, S) == Range(seq) = S /\ Len(seq) = Cardinality(S)

\* the box a light or sign is indexed under
PointBox(p) == [min_ |-> p, max_ |-> p]

\* C11: when the last load returned true, queryRegion(box) returns, per kind,
\* exactly the stored elements whose index box intersects box, each once.
C11_QueryRegionExact ==
  (loadResult = <<TRUE>> /\ call # <<>> /\ call[1] = "queryRegion") =>
    LET box == call[2] IN
    /\ ExactlyOnce(ret.value.lanes_,
                   {id \in DOMAIN store.lanes_ : intersects(store.lanes_[id].bbox_, box)})
    /\ ExactlyOnce(ret.value.trafficLights_,
                   {id \in DOMAIN store.trafficLights_ :
                      intersects(PointBox(store.trafficLights_[id].position_), box)})
    /\ ExactlyOnce(ret.value.trafficSigns_,
                   {id \in DOMAIN store.trafficSigns_ :
                      intersects(PointBox(store.trafficSigns_[id].position_), box)})


\* the stored elements of each kind whose index box intersects box
LanesMeeting(box) ==
  {id \in DOMAIN store.lanes_ : intersects(store.lanes_[id].bbox_, box)}

LightsMeeting(box) ==
  {id \in DOMAIN store.trafficLights_ :
     intersects(PointBox(store.trafficLights_[id].position_), box)}

SignsMeeting(box) ==
  {id \in DOMAIN store.trafficSigns_ :
     intersects(PointBox(store.trafficSigns_[id].position_), box)}

\* C12: when the last load returned true, queryRadius(c, r) gets from each index
\* every element whose box intersects the square around c, and returns exactly the
\* lanes with a centerline point within r of c and exactly the lights and signs
\* whose position is within r of c.
C12_RadiusQueryExact ==
  (loadResult = <<TRUE>> /\ call # <<>> /\ call[1] = "queryRadius") =>
    LET c == call[2][1]
        r == call[2][2]
        sq == SquareAround(c, r)
    IN /\ LanesMeeting(sq) \subseteq Range(ret.hits.lanes_)
       /\ LightsMeeting(sq) \subseteq Range(ret.hits.trafficLights_)
       /\ SignsMeeting(sq) \subseteq Range(ret.hits.trafficSigns_)
       /\ Range(ret.value.lanes_) =
            {id \in DOMAIN store.lanes_ : LaneWithin(store.lanes_[id], c, r)}
       /\ Range(ret.value.trafficLights_) =
            {id \in DOMAIN store.trafficLights_ :
               Within(c, store.trafficLights_[id].position_, r)}
       /\ Range(ret.value.trafficSigns_) =
            {id \in DOMAIN store.trafficSigns_ :
               Within(c, store.trafficSigns_[id].position_, r)}


\* C13: getClosestLane(p) returns no lane exactly when no stored lane has a
\* centerline point within 200 of p, and otherwise a lane whose nearest centerline
\* point is at the least distance from p over all stored lanes.
C13_ClosestLane ==
  (loadResult = <<TRUE>> /\ call # <<>> /\ call[1] = "getClosestLane") =>
    LET p == call[2]
        near == {id \in DOMAIN store.lanes_ :
                   LaneWithin(store.lanes_[id], p, LargerSearchRadius)}
    IN /\ (ret.value = <<>>) <=> (near = {})
       /\ ret.value # <<>> =>
            /\ ret.value[1] \in DOMAIN store.lanes_
            /\ \A id \in DOMAIN store.lanes_ :
                 MinDistSq(store.lanes_[ret.value[1]], p) <= MinDistSq(store.lanes_[id], p)


\* what a lookup of id in the mapping m has to return
Found(m, id) == IF id \in DOMAIN m THEN <<m[id]>> ELSE <<>>

\* C14: a lookup by id returns the stored element of its kind with that id when
\* the kind's mapping has one and no value otherwise; an id that is only a lane's
\* is absent as a traffic light and as a traffic sign.
C14_LookupById ==
  call # <<>> =>
    /\ call[1] = "getLaneById" => ret.value = Found(store.lanes_, call[2])
    /\ call[1] = "getTrafficLightById" => ret.value = Found(store.trafficLights_, call[2])
    /\ call[1] = "getTrafficSignById" => ret.value = Found(store.trafficSigns_, call[2])
    /\ ( /\ call[1] \in {"getTrafficLightById", "getTrafficSignById"}
         /\ call[2] \in DOMAIN store.lanes_
         /\ call[2] \notin DOMAIN store.trafficLights_ \cup DOMAIN store.trafficSigns_ )
       => ret.value = <<>>

\* a lane's id was looked up as a traffic light and is absent, and the same store
\* has traffic lights
C14_Witness ==
  /\ call = <<"getTrafficLightById", 101>>
  /\ 101 \in DOMAIN store.lanes_
  /\ store.trafficLights_ # <<>>
  /\ ret.value = <<>>


\* the points of the three polylines of a lane
AllPoints(l) == Range(l.centerline_) \cup Range(l.leftBoundary_) \cup Range(l.rightBoundary_)

\* the smallest axis-aligned box that contains the points of P
SmallestBox(P) ==
  LET xs == {p.x_ : p \in P}
      ys == {p.y_ : p \in P}
  IN BoundingBox(CHOOSE a \in xs : \A b \in xs : a <= b,
                 CHOOSE a \in ys : \A b \in ys : a <= b,
                 CHOOSE a \in xs : \A b \in xs : a >= b,
                 CHOOSE a \in ys : \A b \in ys : a >= b)

\* C15 as stated: for every lane with at least one point in its centerline or its
\* boundaries, computeBoundingBox yields the smallest box that contains every point
\* of the centerline, the left boundary and the right boundary.
C15_BoxOfAnyPoints ==
  (lastCall = "computeBoundingBox" /\ AllPoints(laneObj) # {}) =>
    laneObj.bbox_ = SmallestBox(AllPoints(laneObj))

\* C15 amended: for every lane with at least one centerline point,
\* computeBoundingBox yields the smallest box that contains every point of the
\* centerline and of both boundaries; for a lane with an empty centerline it
\* yields the box (0,0)-(0,0), whatever the boundaries hold.
C15_BoxOfLaneWithCenterline ==
  lastCall = "computeBoundingBox" =>
    IF laneObj.centerline_ # <<>>
    THEN laneObj.bbox_ = SmallestBox(AllPoints(laneObj))
    ELSE laneObj.bbox_ = ZeroBox

\* the box was computed for a lane whose boundaries reach beyond its centerline
C15_Witness ==
  /\ lastCall = "computeBoundingBox"
  /\ laneObj.centerline_ = <<Point2D(0, 0)>>
  /\ laneObj.leftBoundary_ = <<Point2D(-1, 3)>>
  /\ laneObj.rightBoundary_ = <<Point2D(2, 1)>>
  /\ laneObj.bbox_ = BoundingBox(-1, 0, 2, 3)


\* C16: a query leaves the three mappings and the three indices as they were, and
\* a query that repeats the one before it, with the same arguments, returns what
\* that one returned.
C16_QueriesReadOnly ==
  [][queries' = queries + 1 =>
       /\ store' = store
       /\ (call # <<>> /\ call' = call) => ret'.value = ret.value]_vars


\* C17: whatever a reader running beside loadFromFile sees of the store is a
\* complete, successfully built map or the empty store: every element of a mapping
\* is in its index, and the mappings do not hold a map that exceeds the budget.
C17_BuildAtomic ==
  seen # <<>> =>
    LET st == seen[1] IN
    /\ IndexHolds(st.laneIndex_, DOMAIN st.lanes_)
    /\ IndexHolds(st.trafficLightIndex_, DOMAIN st.trafficLights_)
    /\ IndexHolds(st.trafficSignIndex_, DOMAIN st.trafficSigns_)
    /\ ~OverBudget([lanes |-> st.lanes_, lights |-> st.trafficLights_,
                    signs |-> st.trafficSigns_], st.constraints_)


\* the step is an insert that finds the leaf it chooses full and splits it
LeafIsSplit ==
  /\ ~tree.corrupt
  /\ Len(inserted') = Len(inserted) + 1
  /\ tree.nodes[tree.root].entries # <<>>
  /\ chooseLeaf(tree, inserted'[Len(inserted')]) # NullNode
  /\ isFull(tree.nodes[chooseLeaf(tree, inserted'[Len(inserted')])])

\* the entries the split leaf is left with, and those of its new sibling
SplitLeafEntries == tree'.nodes[chooseLeaf(tree, inserted'[Len(inserted')])].entries

SiblingEntries ==
  LET s == CHOOSE n \in DOMAIN tree'.nodes \ DOMAIN tree.nodes : isLeaf(tree'.nodes[n])
  IN tree'.nodes[s].entries

\* the entries the split distributes: those of the full leaf, then the new one
SplitInput ==
  Append(tree.nodes[chooseLeaf(tree, inserted'[Len(inserted')])].entries,
         RTreeEntry(inserted'[Len(inserted')], EntRef(Len(inserted'))))

\* the entries of es, a node after the split, that were in it when entry number i
\* of all was placed: its seed and the entries that come before i in all
GrownBefore(es, all, i) ==
  LET Idx(x) == CHOOSE k \in 1..Len(all) : all[k].data = x.data
  IN SelectSeq(es, LAMBDA x : x.data = es[1].data \/ Idx(x) < i)

Holds(es, e) == \E k \in 1..Len(es) : es[k].data = e.data

\* TRUE when the placement of every non-seed entry agrees with the rule: to the
\* node of smaller enlargement, and on equal enlargements to the original node
\* when tieToOriginal, to the sibling otherwise
PlacedByEnlargement(all, e1, e2, tieToOriginal) ==
  \A i \in 1..Len(all) :
    all[i].data \notin {e1[1].data, e2[1].data} =>
      LET enlarge1 == computeEnlargement(getBoundingBox(GrownBefore(e1, all, i)), all[i].bbox)
          enlarge2 == computeEnlargement(getBoundingBox(GrownBefore(e2, all, i)), all[i].bbox)
      IN IF enlarge1 < enlarge2 \/ (tieToOriginal /\ enlarge1 = enlarge2)
         THEN Holds(e1, all[i]) ELSE Holds(e2, all[i])

\* C18: when a leaf is split, every entry but the two seeds is placed in the one of
\* the two growing nodes whose box needs the smaller enlargement to take it, and in
\* the original node when the two enlargements are equal.
C18_SplitDistribution ==
  [][LeafIsSplit => PlacedByEnlargement(SplitInput, SplitLeafEntries, SiblingEntries, TRUE)]_vars


\* what the entries of a node refer to
DataOf(es) == {es[i].data : i \in 1..Len(es)}

\* node s of u is the sibling a split of node n of t has made: the two are of n's
\* kind, each holds an entry, and together they hold the entries of the full n and
\* one more, each once
SplitOf(t, u, n, s) ==
  /\ Len(t.nodes[n].entries) = MAX_RTREE_ENTRIES
  /\ u.nodes[n].type = t.nodes[n].type
  /\ u.nodes[s].type = t.nodes[n].type
  /\ Len(u.nodes[n].entries) >= 1
  /\ Len(u.nodes[s].entries) >= 1
  /\ Len(u.nodes[n].entries) + Len(u.nodes[s].entries) = MAX_RTREE_ENTRIES + 1
  /\ DataOf(t.nodes[n].entries) \subseteq DataOf(u.nodes[n].entries) \cup DataOf(u.nodes[s].entries)
  /\ Cardinality(DataOf(u.nodes[n].entries) \cup DataOf(u.nodes[s].entries))
       = MAX_RTREE_ENTRIES + 1

\* C19: every sibling an insert creates comes from the split of a full node: the
\* MAX_RTREE_ENTRIES + 1 entries (the node's and the new one) are divided between
\* the node and the sibling, of the node's kind, each entry in exactly one of the
\* two and each of the two holding at least one, also when all centres coincide.
C19_SplitPartitions ==
  [][(~tree.corrupt /\ Len(inserted') = Len(inserted) + 1) =>
       \A s \in (DOMAIN tree'.nodes \ DOMAIN tree.nodes) \ {tree'.root} :
         \E n \in DOMAIN tree.nodes : SplitOf(tree, tree', n, s)]_vars

\* a leaf whose nine entries all have the same centre was split
C19_Witness ==
  /\ ~cleared
  /\ Len(inserted) = MAX_RTREE_ENTRIES + 1
  /\ \A i \in 1..Len(inserted) : inserted[i] = inserted[1]
  /\ Cardinality(DOMAIN tree.nodes) = 3
  /\ \A n \in DOMAIN tree.nodes : tree.nodes[n].entries # <<>>


\* target is the leaf reached from node by taking, at each internal node, the
\* lowest-index entry among those of least enlargement for bbox
RECURSIVE OnLeastPath(_, _, _, _)
OnLeastPath(t, node, bbox, target) ==
  LET n == t.nodes[node] IN
  IF isLeaf(n) THEN node = target
  ELSE \E i \in 1..Len(n.entries) :
         /\ \A j \in 1..Len(n.entries) :
              computeEnlargement(n.entries[i].bbox, bbox)
                <= computeEnlargement(n.entries[j].bbox, bbox)
         /\ \A j \in 1..(i - 1) :
              computeEnlargement(n.entries[j].bbox, bbox)
                > computeEnlargement(n.entries[i].bbox, bbox)
         /\ n.entries[i].data.k = "node"
         /\ OnLeastPath(t, n.entries[i].data.id, bbox, target)

\* C20: the chooseLeaf of an insert into a non-empty index follows, from the root,
\* the lowest-index entry of least enlargement at each internal node and ends at a
\* LEAF node of the tree.
C20_ChooseLeaf ==
  [][(~tree.corrupt /\ Len(inserted') = Len(inserted) + 1
        /\ tree.nodes[tree.root].entries # <<>>) =>
       LET bbox == inserted'[Len(inserted')]
           leaf == chooseLeaf(tree, bbox)
       IN /\ leaf \in DOMAIN tree.nodes
          /\ isLeaf(tree.nodes[leaf])
          /\ OnLeastPath(tree, tree.root, bbox, leaf)]_vars


\* the entries of node p of t that refer to node n
RefsTo(t, p, n) == {i \in 1..Len(t.nodes[p].entries) : t.nodes[p].entries[i].data = NodeRef(n)}

\* C21: after any sequence of inserts, for every node n but the root the node that
\* n.parent names holds exactly one entry that refers to n, so adjustTree started
\* at a leaf updates the entry of every ancestor up to the root.
C21_ParentLinks ==
  (~cleared /\ ~tree.corrupt) =>
    \A n \in DOMAIN tree.nodes \ {tree.root} :
      /\ tree.nodes[n].parent \in DOMAIN tree.nodes
      /\ Cardinality(RefsTo(tree, tree.nodes[n].parent, n)) = 1


\* the depth, from node, at which every leaf below node lies: the set of those
\* depths, counted from d
RECURSIVE LeafDepths(_, _, _)
LeafDepths(t, node, d) ==
  LET n == t.nodes[node] IN
  IF isLeaf(n) THEN {d}
  ELSE UNION {IF n.entries[i].data.k = "node"
              THEN LeafDepths(t, n.entries[i].data.id, d + 1) ELSE {0} :
                i \in 1..Len(n.entries)}

\* every entry of an INTERNAL node refers to a node, every entry of a LEAF to an
\* entity
KindsMatch(t) ==
  \A n \in DOMAIN t.nodes : \A i \in 1..Len(t.nodes[n].entries) :
    t.nodes[n].entries[i].data.k = (IF isLeaf(t.nodes[n]) THEN "ent" ELSE "node")

\* C22: after any sequence of inserts on a fresh index every entry of an INTERNAL
\* node refers to a node and every entry of a LEAF node to an entity, and every
\* leaf lies at the depth height() reports.
C22_BalancedDepth ==
  ~cleared =>
    /\ ~tree.corrupt
    /\ KindsMatch(tree)
    /\ LeafDepths(tree, tree.root, 1) = {height(tree)}

\* a tree of height 3 whose leaves were made by splits at two levels
C22_Witness ==
  /\ ~cleared
  /\ height(tree) = 3
  /\ Cardinality({n \in DOMAIN tree.nodes : isLeaf(tree.nodes[n])}) >= MAX_RTREE_ENTRIES + 2


\* C23: after loadFromFile has returned true, getMemoryUsage(), the entity costs
\* plus 64 bytes for each entry of the built indices, is at most
\* constraints.maxTotalMemory.
C23_UsageWithinBudget ==
  (lastCall = "load" /\ loadResult = <<TRUE>>) =>
    getMemoryUsage(store) <= store.constraints_.maxTotalMemory


\* the elements the three mappings of the store hold
Mapped ==
  Elems("lane", DOMAIN store.lanes_) \cup Elems("light", DOMAIN store.trafficLights_)
    \cup Elems("sign", DOMAIN store.trafficSigns_)

\* C24: an element a mapping holds is alive; what a query hands out is no owner of
\* its own of such an element, so dropping it destroys none; and nothing that was
\* destroyed is owned by a result whose drop would destroy it again.
C24_EntityLifetime ==
  /\ freed \cap Mapped = {}
  /\ held \cap Mapped = {}
  /\ held \cap freed = {}

====
